---- MODULE Spec2Model ----
(***************************************************************************)
(* Model of the tobacco heatmap generators.                                *)
(*                                                                         *)
(*   generate_standalone_heatmap.py  ("standalone"): load, classify,       *)
(*       organize, generate the HTML page, write it; and the page's own    *)
(*       script (threshold input, recipe toggles, updateHeatmap).          *)
(*   tobacco_heatmap_FINAL.py        ("dash"): load, classify, order,      *)
(*       build the figure, run the server; and the static plot.            *)
(*                                                                         *)
(* Numbers are concentrations in hundredths (45 stands for 0.45).  A       *)
(* numeric cell is a one-element tuple <<v>>, a missing one (float nan) is *)
(* the empty tuple.  A missing text cell of a spreadsheet is the string    *)
(* "NaN".                                                                  *)
(***************************************************************************)
EXTENDS Integers, Sequences, FiniteSets, TLC

(***************************************************************************)
(* Bounds of the explored inputs.                                          *)
(***************************************************************************)
\* matrix rows explored: at most this many recipes per run
MaxRows == 2
\* recipes of each group that may be rows of the matrix: the first MaxPerGroup
MaxPerGroup == 2
\* matrix columns explored: at most this many ingredients
MaxCols == 2
\* rows of the classification table explored
MaxRampValue == 110

MaxTableRows == 2

(***************************************************************************)
(* Small helpers.                                                          *)
(***************************************************************************)
Range(s) == {s[i] : i \in DOMAIN s}

Min(a, b) == IF a <= b THEN a ELSE b

\* pd.notna on a text cell
notna(x) == x # "NaN"

\* float('nan') and a number, as numeric cells
nan == <<>>

Float(h) == <<h>>

isnan(x) == x = <<>>

\* sequences without repetition over a set, up to a length
DistinctSeqs(S, n) ==
    {s \in UNION {[1..k -> S] : k \in 0..n} :
        \A i, j \in DOMAIN s : i # j => s[i] # s[j]}

SeqsUpTo(S, n) == UNION {[1..k -> S] : k \in 0..n}

SubsetsUpTo(S, n) == {T \in SUBSET S : Cardinality(T) <= n}

(***************************************************************************)
(* Group definitions.                                                      *)
(***************************************************************************)
\* key order of the dict returned by define_recipe_groups
TobaccoGroupNames == <<"G1 - MGO and Filed", "G2", "G3", "G4 - Unique">>

tobacco_groups ==
    [g \in Range(TobaccoGroupNames) |->
        CASE g = "G1 - MGO and Filed" ->
                <<"J1 Virginia Tobacco 5%",
                  "TOBACCO (VIRGINIA) 5% (+38% FL) E-400360",
                  "VIRGINIA TOBACCO 5% (DDS00451B)",
                  "(ILLINOIS) TOBACCO VT 5% NFC) DDS00734",
                  "TOBACCO(GOLDEN) 5% ( +38% FL) (E-400361)">>
          [] g = "G2" ->
                <<"RUBY TOBACCO (S2) 3% (40%VG) (E-400518)",
                  "PURPLE TOBACCO3% (E-400514)",
                  "TOBACCO(AMERICAN) 5% (E-400469)",
                  "(OREGON) AMERICAN TOBACCO 5% (CHINA WL) DDS00737">>
          [] g = "G3" ->
                <<"AUTUMN TOBACCO 3% (E-400519)",
                  "TOBACCO (BLONDE) 5% +25% FL (PAB00426B)",
                  "SRI LANKA  TOBACCO 5% (E-400451)",
                  "VERMONT TOBACCO  5% (E-400454)",
                  "(COLORADO) VIRGINIA TOBACCO 5% (DDS00735)",
                  "(ARIZONA) BLONDE TOBACCO5% (CHINA WL) DDS00736">>
          [] OTHER ->
                <<"Classic Tobacco 5% (345-00006)",
                  "CALIFORNIA TOBACCO 5% (E-400452)",
                  "Golden Tobacco 5% J1 (345-00124)">>]

\* keys of the sensory_groups dict built by create_sensory_groups
SensoryGroupKeys ==
    {"Sweet", "Light", "Smooth", "Rich", "Dry", "Harsh", "Cooling", "Ungrouped"}

\* the key order of the classifier's dict in place of organize_data's list
sensory_group_order_of_dict ==
    <<"Sweet", "Light", "Smooth", "Rich", "Dry", "Harsh", "Cooling">>

\* traversal order of the named sensory groups in both order builders
sensory_group_order ==
    <<"Sweet", "Dry", "Rich", "Light", "Smooth", "Harsh", "Cooling">>

(***************************************************************************)
(* Sensory classifier: create_sensory_groups.                              *)
(***************************************************************************)
RECURSIVE BuildSensoryMapNoFilter(_, _)
\* the test of the two fields missing: every row is written
BuildSensoryMapNoFilter(rows, map) ==
    IF rows = <<>> THEN map
    ELSE BuildSensoryMapNoFilter(Tail(rows),
            (Head(rows).product :> Head(rows).note) @@ map)

RECURSIVE BuildSensoryMapFirstWins(_, _)
\* an ingredient already in the map keeps its label
BuildSensoryMapFirstWins(rows, map) ==
    IF rows = <<>> THEN map
    ELSE LET row == Head(rows)
         IN  BuildSensoryMapFirstWins(Tail(rows),
                IF notna(row.product) /\ notna(row.note)
                THEN map @@ (row.product :> row.note)
                ELSE map)

RECURSIVE BuildSensoryMap(_, _)
\* for _, row in sensory_df.iterrows(): keep rows with both fields present
BuildSensoryMap(rows, map) ==
    IF rows = <<>> THEN map
    ELSE LET row == Head(rows)
         IN  BuildSensoryMap(Tail(rows),
                IF notna(row.product) /\ notna(row.note)
                THEN (row.product :> row.note) @@ map
                ELSE map)

\* sensory_map.get(ingredient, 'Ungrouped')
SensoryNoteOf(map, ingredient) ==
    IF ingredient \in DOMAIN map THEN map[ingredient] ELSE "Ungrouped"

\* the key 'Cooling' missing from the dict of groups
TargetGroupKeyMissing(map, ingredient) ==
    LET sensory_note == SensoryNoteOf(map, ingredient)
    IN  IF sensory_note \in SensoryGroupKeys \ {"Cooling"}
        THEN sensory_note ELSE "Ungrouped"

\* the group an ingredient is appended to
TargetGroup(map, ingredient) ==
    LET sensory_note == SensoryNoteOf(map, ingredient)
    IN  IF sensory_note \in SensoryGroupKeys THEN sensory_note ELSE "Ungrouped"

RECURSIVE GroupColumnsNoElse(_, _, _)
\* the else branch missing: a column with an unknown label is appended nowhere
GroupColumnsNoElse(columns, map, groups) ==
    IF columns = <<>> THEN groups
    ELSE LET ingredient == Head(columns)
             sensory_note == SensoryNoteOf(map, ingredient)
         IN  GroupColumnsNoElse(Tail(columns), map,
                IF sensory_note \in SensoryGroupKeys
                THEN [groups EXCEPT ![sensory_note] = Append(@, ingredient)]
                ELSE groups)

RECURSIVE GroupColumns(_, _, _)
\* for ingredient in df.columns: append to its group's list
GroupColumns(columns, map, groups) ==
    IF columns = <<>> THEN groups
    ELSE LET ingredient == Head(columns)
             g == TargetGroup(map, ingredient)
         IN  GroupColumns(Tail(columns), map,
                [groups EXCEPT ![g] = Append(@, ingredient)])

create_sensory_groups(d, table) ==
    GroupColumns(d.columns, BuildSensoryMap(table, <<>>),
                 [g \in SensoryGroupKeys |-> <<>>])

(***************************************************************************)
(* Order builders: organize_data and order_data_by_groups.                 *)
(***************************************************************************)
EmptyAxis == [order |-> <<>>, groups |-> <<>>]

RECURSIVE AppendPresent(_, _, _, _)
\* for item in items: if item in present: order.append(item); groups[item] = name
AppendPresent(items, present, name, acc) ==
    IF items = <<>> THEN acc
    ELSE LET item == Head(items)
         IN  AppendPresent(Tail(items), present, name,
                IF item \in present
                THEN [order  |-> Append(acc.order, item),
                      groups |-> (item :> name) @@ acc.groups]
                ELSE acc)

RECURSIVE OrderByGroupsReversed(_, _, _, _)
\* the groups traversed last to first
OrderByGroupsReversed(names, table, present, acc) ==
    IF names = <<>> THEN acc
    ELSE OrderByGroupsReversed(SubSeq(names, 1, Len(names) - 1), table, present,
            AppendPresent(table[names[Len(names)]], present, names[Len(names)],
                          acc))

RECURSIVE OrderByGroups(_, _, _, _)
\* for group_name in names: for item in table[group_name]: ...
OrderByGroups(names, table, present, acc) ==
    IF names = <<>> THEN acc
    ELSE OrderByGroups(Tail(names), table, present,
            AppendPresent(table[Head(names)], present, Head(names), acc))

\* the loop over sensory_groups['Ungrouped'] missing
organize_data_no_ungrouped(d, groups, sgroups) ==
    LET recipes == OrderByGroups(TobaccoGroupNames, groups, d.index, EmptyAxis)
        named   == OrderByGroups(sensory_group_order, sgroups,
                                 Range(d.columns), EmptyAxis)
    IN  [recipe_order      |-> recipes.order,
         ingredient_order  |-> named.order,
         recipe_groups     |-> recipes.groups,
         ingredient_groups |-> named.groups]

RECURSIVE SeqOfSet(_)
SeqOfSet(S) ==
    IF S = {} THEN <<>>
    ELSE LET x == CHOOSE y \in S : TRUE IN <<x>> \o SeqOfSet(S \ {x})

\* the rows left over appended under a fallback group, as for ingredients
organize_data_fallback(d, groups, sgroups) ==
    LET recipes == OrderByGroups(TobaccoGroupNames, groups, d.index, EmptyAxis)
        rest    == AppendPresent(SeqOfSet(d.index \ Range(recipes.order)),
                                 d.index, "Ungrouped", recipes)
        named   == OrderByGroups(sensory_group_order, sgroups,
                                 Range(d.columns), EmptyAxis)
        all     == AppendPresent(sgroups["Ungrouped"], Range(d.columns),
                                 "Ungrouped", named)
    IN  [recipe_order      |-> rest.order,
         ingredient_order  |-> all.order,
         recipe_groups     |-> rest.groups,
         ingredient_groups |-> all.groups]

\* generate_standalone_heatmap.py
organize_data(d, groups, sgroups) ==
    LET recipes == OrderByGroups(TobaccoGroupNames, groups, d.index, EmptyAxis)
        named   == OrderByGroups(sensory_group_order, sgroups,
                                 Range(d.columns), EmptyAxis)
        all     == AppendPresent(sgroups["Ungrouped"], Range(d.columns),
                                 "Ungrouped", named)
    IN  [recipe_order      |-> recipes.order,
         ingredient_order  |-> all.order,
         recipe_groups     |-> recipes.groups,
         ingredient_groups |-> all.groups]

\* tobacco_heatmap_FINAL.py
order_data_by_groups(d, groups, sgroups) ==
    LET recipes == OrderByGroups(TobaccoGroupNames, groups, d.index, EmptyAxis)
        named   == OrderByGroups(sensory_group_order, sgroups,
                                 Range(d.columns), EmptyAxis)
    IN  [recipe_order      |-> recipes.order,
         ingredient_order  |-> named.order,
         grouped_recipes   |-> recipes.groups]

(***************************************************************************)
(* Renderer inputs: generate_html_file (the data embedded in the page) and *)
(* create_heatmap_figure (the dashboard figure).                           *)
(***************************************************************************)
\* key order of grouped_ingredients, hence of Object.entries(groupedIngredients)
PageSensoryOrder == sensory_group_order \o <<"Ungrouped">>

\* dict.get(key) == group_name
GetIs(dict, key, group_name) == key \in DOMAIN dict /\ dict[key] = group_name

\* float(value) if pd.notna(value) else 0
ExportValue(d, recipe, ingredient) ==
    LET value == IF ingredient \in Range(d.columns)
                 THEN d.val[<<recipe, ingredient>>] ELSE Float(0)
    IN  IF ~isnan(value) THEN value[1] ELSE 0

generate_html_file(d, rorder, iorder, rgroups, igroups) ==
    [heatmapData |->
        [i \in 1..Len(rorder) |->
            [j \in 1..Len(iorder) |-> ExportValue(d, rorder[i], iorder[j])]],
     recipeOrder |-> rorder,
     ingredientOrder |-> iorder,
     groupedRecipes |->
        [g \in Range(TobaccoGroupNames) |->
            SelectSeq(rorder, LAMBDA recipe : GetIs(rgroups, recipe, g))],
     groupedIngredients |->
        [g \in Range(PageSensoryOrder) |->
            SelectSeq(iorder, LAMBDA ing : GetIs(igroups, ing, g))]]

EmptyPage == generate_html_file([index |-> {}, columns |-> <<>>, val |-> <<>>],
                                <<>>, <<>>, <<>>, <<>>)

RECURSIVE DividerLines(_, _, _, _, _)
\* position = 0; for group_name in names: members = [x for x in order if x in
\* table[group_name]]; a line at position when members and position > 0
DividerLines(names, table, order, position, lines) ==
    IF names = <<>> THEN lines
    ELSE LET members == SelectSeq(order,
                            LAMBDA x : x \in Range(table[Head(names)]))
         IN  DividerLines(Tail(names), table, order, position + Len(members),
                IF members # <<>> /\ position > 0
                THEN lines \cup {position} ELSE lines)

\* heatmap_data.fillna(0), then where(heatmap_data > 0, nan)
DisplayValue(value) ==
    LET filled == IF isnan(value) THEN 0 ELSE value[1]
    IN  IF filled > 0 THEN Float(filled) ELSE nan

create_heatmap_figure(d, rorder, iorder, sgroups) ==
    [z |-> [i \in 1..Len(rorder) |->
                [j \in 1..Len(iorder) |->
                    DisplayValue(d.val[<<rorder[i], iorder[j]>>])]],
     x |-> iorder,
     y |-> rorder,
     vlines |-> DividerLines(sensory_group_order, sgroups, iorder, 0, {}),
     hlines |-> DividerLines(TobaccoGroupNames, tobacco_groups, rorder, 0, {})]

EmptyFigure == [z |-> <<>>, x |-> <<>>, y |-> <<>>, vlines |-> {}, hlines |-> {}]

(***************************************************************************)
(* The generated page's script.  Colours are (r, g, b) triples, as the     *)
(* browser keeps a background colour: '#d3d3d3' is (211, 211, 211),        *)
(* '#f0f0f0' and rgba(240, 240, 240, 1) are both (240, 240, 240).          *)
(***************************************************************************)
\* let currentThreshold = 0.4
InitialThreshold == 40

\* '#f0f0f0'
NeutralColour == <<240, 240, 240>>

\* '#d3d3d3'
InactiveColour == <<211, 211, 211>>

\* const colors: the five stops
colors ==
    <<<<68, 1, 84>>, <<59, 82, 139>>, <<33, 144, 141>>, <<94, 201, 98>>,
      <<253, 231, 37>>>>

\* Math.round(n / 100) for n >= 0
RoundHundredths(n) == (2 * n + 100) \div 200

\* the channels truncated instead of rounded
getColorTruncating(value) ==
    IF value <= 0 THEN NeutralColour
    ELSE LET index == Min(value, 100) * (Len(colors) - 1)
             lowerIndex == index \div 100
             upperIndex == IF index % 100 = 0 THEN lowerIndex ELSE lowerIndex + 1
             fraction == index - 100 * lowerIndex
             lo == colors[lowerIndex + 1]
             hi == colors[upperIndex + 1]
         IN  [c \in 1..3 |-> (100 * lo[c] + (hi[c] - lo[c]) * fraction) \div 100]

\* getColor(value, 1), value in hundredths
getColor(value) ==
    IF value <= 0 THEN NeutralColour
    ELSE LET scaledValue == Min(IF value >= 0 THEN value ELSE 0, 100)
             \* index = scaledValue * (colors.length - 1), in hundredths
             index == scaledValue * (Len(colors) - 1)
             lowerIndex == index \div 100
             upperIndex == IF index % 100 = 0 THEN lowerIndex ELSE lowerIndex + 1
             fraction == index - 100 * lowerIndex
             lo == colors[lowerIndex + 1]
             hi == colors[upperIndex + 1]
         IN  IF lowerIndex = upperIndex THEN lo
             ELSE [c \in 1..3 |->
                      RoundHundredths(100 * lo[c] + (hi[c] - lo[c]) * fraction)]

RECURSIVE FirstGroupWith(_, _, _)
\* for (const [groupName, members] of Object.entries(grouped)): the first
\* group whose list includes the item
FirstGroupWith(names, grouped, item) ==
    IF names = <<>> THEN ""
    ELSE IF item \in Range(grouped[Head(names)]) THEN Head(names)
    ELSE FirstGroupWith(Tail(names), grouped, item)

getIngredientGroup(page, ingredient) ==
    LET g == FirstGroupWith(PageSensoryOrder, page.groupedIngredients, ingredient)
    IN  IF g = "" THEN "Ungrouped" ELSE g

\* colIndex counts from 0
isFirstInGroup(page, ingredient, colIndex) ==
    IF colIndex = 0 THEN TRUE
    ELSE getIngredientGroup(page, ingredient)
            # getIngredientGroup(page, page.ingredientOrder[colIndex])

getGroupColor(groupName) ==
    CASE groupName \in {"Sweet", "Rich", "Smooth", "Cooling"} -> "#FF0000"
      [] groupName \in {"Dry", "Light", "Harsh"} -> "#00FF00"
      [] OTHER -> "#808080"

\* the comparison inverted
isAboveThresholdInverted(value, threshold) == value <= threshold

\* the comparison strict
isAboveThresholdStrict(value, threshold) == value > threshold

\* value >= currentThreshold
isAboveThreshold(value, threshold) == value >= threshold

\* a passing cell of an unselected recipe blanked instead of shown inactive
CellBackgroundHideUnselected(value, recipe, threshold, selected) ==
    IF isAboveThreshold(value, threshold) /\ recipe \in selected
    THEN getColor(value)
    ELSE NeutralColour

\* the selection tested before the threshold
CellBackgroundSelectedFirst(value, recipe, threshold, selected) ==
    IF Cardinality(selected) > 0 /\ recipe \in selected
    THEN getColor(value)
    ELSE IF isAboveThreshold(value, threshold) THEN InactiveColour
    ELSE NeutralColour

\* the background updateHeatmap gives a cell
CellBackground(value, recipe, threshold, selected) ==
    IF isAboveThreshold(value, threshold)
    THEN IF Cardinality(selected) > 0 /\ recipe \in selected
         THEN getColor(value)
         ELSE InactiveColour
    ELSE NeutralColour

\* updateHeatmap: every cell's background from its value and recipe
updateHeatmap(table, threshold, selected) ==
    [c \in DOMAIN table |->
        [table[c] EXCEPT !.backgroundColor =
            CellBackground(table[c].value, table[c].recipe, threshold, selected)]]

\* createHeatmap: the header cells of the non-empty sensory groups
createHeader(page) ==
    LET nonEmpty == SelectSeq(PageSensoryOrder,
                        LAMBDA g : Len(page.groupedIngredients[g]) # 0)
    IN  [k \in 1..Len(nonEmpty) |->
            [group |-> nonEmpty[k],
             colSpan |-> Len(page.groupedIngredients[nonEmpty[k]])]]

\* createHeatmap: one row per recipe, one data cell per ingredient
createHeatmap(page) ==
    [c \in (1..Len(page.recipeOrder)) \X (1..Len(page.ingredientOrder)) |->
        LET ingredient == page.ingredientOrder[c[2]]
        IN  [recipe |-> page.recipeOrder[c[1]],
             ingredient |-> ingredient,
             value |-> page.heatmapData[c[1]][c[2]],
             borderLeft |->
                IF isFirstInGroup(page, ingredient, c[2] - 1)
                THEN getGroupColor(getIngredientGroup(page, ingredient))
                ELSE "",
             \* no statement of createHeatmap sets a row's or a cell's top border
             borderTop |-> "",
             backgroundColor |-> <<>>]]

\* parseFloat(event.target.value) || 0; the field's text is a number or not
ParseThreshold(text) == IF isnan(text) THEN 0 ELSE text[1]

(***************************************************************************)
(* The static plot: create_static_heatmap.                                 *)
(***************************************************************************)
\* the plots masked at the page's initial threshold
StaticThresholdAsPage == InitialThreshold

\* df_display[df_display <= 0.45] = np.nan
StaticThreshold == 45

\* a cell of df_display after masking the values <= threshold
MaskAtOrBelow(value, threshold) ==
    IF ~isnan(value) /\ value[1] <= threshold THEN nan ELSE value

create_static_heatmap(d, rorder, iorder) ==
    [c \in (1..Len(rorder)) \X (1..Len(iorder)) |->
        MaskAtOrBelow(d.val[<<rorder[c[1]], iorder[c[2]]>>], StaticThreshold)]

(***************************************************************************)
(* The Plotly plot: create_interactive_heatmap.                            *)
(***************************************************************************)
\* df_display.loc[group_recipes] raises KeyError when a label of the list is
\* not in the frame's index
LocRaises(index, labels) == \E k \in DOMAIN labels : labels[k] \notin Range(index)

\* go.Heatmap(z=frame.values, x=frame.columns, y=frame.index, visible=...)
HeatmapTrace(d, rows, iorder, visible) ==
    [z |-> [i \in 1..Len(rows) |->
                [j \in 1..Len(iorder) |->
                    MaskAtOrBelow(d.val[<<rows[i], iorder[j]>>], StaticThreshold)]],
     x |-> iorder,
     y |-> rows,
     visible |-> visible]

\* the traces of the figure: all groups, then one per group, hidden
PlotTraces(d, rorder, iorder, groups) ==
    <<HeatmapTrace(d, rorder, iorder, TRUE)>>
        \o [k \in 1..Len(TobaccoGroupNames) |->
                HeatmapTrace(d, groups[TobaccoGroupNames[k]], iorder, FALSE)]

\* the title of the all-groups view
AllGroupsTitle == "ALL RECIPE GROUPS"

\* the group buttons showing the trace before their own: visible_list[i]
create_interactive_heatmap_shifted(d, rorder, iorder, groups) ==
    [traces |-> PlotTraces(d, rorder, iorder, groups),
     buttons |->
        <<[visible |-> <<TRUE>> \o [k \in 1..Len(TobaccoGroupNames) |-> FALSE],
           title |-> AllGroupsTitle]>>
            \o [i \in 1..Len(TobaccoGroupNames) |->
                    [visible |-> [k \in 1..(Len(TobaccoGroupNames) + 1) |-> k = i],
                     title |-> TobaccoGroupNames[i]]],
     title |-> AllGroupsTitle,
     active |-> 0]

\* the traces, the dropdown buttons (their 'visible' and 'title' arguments),
\* the title and the menu's active button of the figure, when no lookup raises
create_interactive_heatmap(d, rorder, iorder, groups) ==
    [traces |-> PlotTraces(d, rorder, iorder, groups),
     buttons |->
        <<[visible |-> <<TRUE>> \o [k \in 1..Len(TobaccoGroupNames) |-> FALSE],
           title |-> AllGroupsTitle]>>
            \o [i \in 1..Len(TobaccoGroupNames) |->
                    [visible |-> [k \in 1..(Len(TobaccoGroupNames) + 1) |->
                                     k = i + 1],
                     title |-> TobaccoGroupNames[i]]],
     title |-> AllGroupsTitle,
     active |-> 0]

EmptyPlot == [traces |-> <<>>, buttons |-> <<>>, title |-> "", active |-> 0]

(***************************************************************************)
(* State.                                                                  *)
(***************************************************************************)
VARIABLES
    prog,              \* which script runs: "standalone" or "dash"
    pc,                \* position of main
    dataRawOk,         \* whether Data_Raw.xlsx can be read
    dataRaw,           \* its content: the recipe x ingredient matrix
    sensoryNoteOk,     \* whether Sensory_Note.xlsx can be read
    sensoryNote,       \* its content: rows (product, note)
    df,                \* the matrix as loaded
    sensory_df,        \* the classification table as loaded
    sensory_groups,    \* classifier output: group name -> list of ingredients
    recipe_order,
    ingredient_order,
    recipe_groups,     \* recipe -> group name (grouped_recipes in the dash script)
    ingredient_groups, \* ingredient -> group name (standalone only)
    html_content,      \* the data embedded in the generated page
    outputFile,        \* tobacco_heatmap_standalone.html: "absent" or "written"
    app,               \* the dash app: "None" or "app"
    static_fig,        \* the figure set on the app's graph
    serverRunning,     \* app.run was called
    exception,         \* "" or the exception that ended the run
    stdout,            \* the failure reports printed, in order
    calls,             \* the functions called so far, in order
    pageLoaded,        \* the generated page is open and initialize() has run
    selectedRecipes,   \* page: the selected recipes
    selectedButtons,   \* page: the recipe buttons carrying class 'selected'
    currentThreshold,  \* page: the threshold, in hundredths
    sensoryHeader,     \* page: the header row, (group, colSpan) per cell
    cells,             \* page: the data cells, by (row, column)
    static_display,    \* static plot: df_display, by (row, column)
    staticFile,        \* tobacco_heatmap_static.png: "absent" or "written"
    interactive_fig,   \* Plotly plot: the figure's traces and buttons
    interactiveFile    \* tobacco_heatmap_interactive_FINAL.html

pipelineVars ==
    <<prog, pc, dataRawOk, dataRaw, sensoryNoteOk, sensoryNote, df, sensory_df,
      sensory_groups, recipe_order, ingredient_order, recipe_groups,
      ingredient_groups, html_content, outputFile, app, static_fig,
      serverRunning, exception, stdout, calls>>

plotVars == <<static_display, staticFile, interactive_fig, interactiveFile>>

renderVars ==
    <<pageLoaded, selectedRecipes, selectedButtons, currentThreshold,
      sensoryHeader, cells, plotVars>>

vars == <<pipelineVars, renderVars>>

(***************************************************************************)
(* The inputs explored: the two spreadsheets.                              *)
(***************************************************************************)
EmptyDf == [index |-> {}, columns |-> <<>>, val |-> <<>>]

\* all matrices with the given row sets, column lists and cell values
Matrices(rowSets, colSeqs, values) ==
    UNION {{[index |-> R, columns |-> C, val |-> f] :
                f \in [R \X Range(C) -> values]} :
           R \in rowSets, C \in colSeqs}

UnlistedRecipe == "MENTHOL TOBACCO 5% (UNLISTED)"

\* recipes that may be rows of an explored matrix
RowCandidates ==
    UNION {Range(SubSeq(tobacco_groups[g], 1,
                        Min(MaxPerGroup, Len(tobacco_groups[g])))) :
           g \in Range(TobaccoGroupNames)} \cup {UnlistedRecipe}

\* ingredients that may be columns; "ingX" never has a classification row
IngredientUniverse == {"ingA", "ingB", "ingX"}

Notes ==
    {"Sweet", "Dry", "Rich", "Light", "Smooth", "Harsh", "Cooling",
     "Ungrouped", "sweet", "NaN"}

\* tables with one row per product, any label
RegularTables ==
    {t \in SeqsUpTo([product : {"ingA", "ingB"}, note : Notes], MaxTableRows) :
        \A i, j \in DOMAIN t : i # j => t[i].product # t[j].product}

\* tables with repeated products and missing names or labels
IrregularTables ==
    SeqsUpTo([product : {"ingA", "NaN"}, note : {"Sweet", "Dry", "sweet", "NaN"}],
             MaxTableRows)

\* every cell 0.5
HalfValues == {Float(50)}

\* many classifications, few row sets
ClassifierInputs ==
    [matrix : Matrices({{}, {tobacco_groups["G2"][1], UnlistedRecipe}},
                       DistinctSeqs(IngredientUniverse, MaxCols), HalfValues),
     table  : RegularTables \cup IrregularTables]

\* many row sets, few classifications
RecipeInputs ==
    [matrix : Matrices(SubsetsUpTo(RowCandidates, MaxRows),
                       {<<>>, <<"ingX", "ingA">>}, HalfValues),
     table  : {<<>>, <<[product |-> "ingA", note |-> "Harsh"]>>}]

\* concentrations of an explored cell: missing, 0, 0.45, 0.5
CellValues == {nan, Float(0), Float(45), Float(50)}

\* many cell values, few rows, columns and classifications; every matrix has a
\* listed recipe and a labelled ingredient, so that no plotted frame is empty
ValueInputs ==
    [matrix : Matrices({{tobacco_groups["G1 - MGO and Filed"][1]},
                        {tobacco_groups["G1 - MGO and Filed"][1],
                         tobacco_groups["G2"][1]}},
                       {<<"ingA">>, <<"ingX", "ingA">>}, CellValues),
     table  : {<<[product |-> "ingA", note |-> "Harsh"]>>}]

\* one cell, every value of the colour ramp's grid 0.00 .. MaxRampValue / 100
RampInputs ==
    [matrix : Matrices({{tobacco_groups["G1 - MGO and Filed"][1]}},
                       {<<"ingA">>}, {Float(v) : v \in 0..MaxRampValue}),
     table  : {<<[product |-> "ingA", note |-> "Harsh"]>>}]

PipelineInputs ==
    ClassifierInputs \cup RecipeInputs \cup ValueInputs \cup RampInputs

\* every listed recipe is a row, and every cell of the matrix has one value
FullInputs ==
    LET R == UNION {Range(tobacco_groups[g]) : g \in Range(TobaccoGroupNames)}
    IN  [matrix : {[index |-> R, columns |-> <<"ingA">>,
                    val |-> [c \in R \X {"ingA"} |-> v]] : v \in CellValues},
         table  : {<<[product |-> "ingA", note |-> "Harsh"]>>}]

\* the arguments explored for the two plot functions no code calls
PlotInputs == ValueInputs \cup FullInputs

\* what can be typed in the threshold field: text that is no number, or a number
ThresholdGrid == {0, 40, 45, 50}

ThresholdTexts == {nan} \cup {Float(t) : t \in ThresholdGrid}

(***************************************************************************)
(* Initial state: a script is started in a directory with the two files.   *)
(***************************************************************************)
InitRun ==
    /\ prog \in {"standalone", "dash"}
    /\ pc = "start"
    /\ df = EmptyDf
    /\ sensory_df = <<>>
    /\ sensory_groups = [g \in SensoryGroupKeys |-> <<>>]
    /\ recipe_order = <<>>
    /\ ingredient_order = <<>>
    /\ recipe_groups = <<>>
    /\ calls = <<>>
    /\ ingredient_groups = <<>>
    /\ html_content = EmptyPage
    /\ outputFile = "absent"
    /\ app = "None"
    /\ static_fig = EmptyFigure
    /\ serverRunning = FALSE
    /\ exception = ""
    /\ stdout = <<>>

InitFiles(inputs) ==
    \E in \in inputs :
        /\ dataRawOk \in BOOLEAN
        /\ sensoryNoteOk \in BOOLEAN
        /\ dataRaw = IF dataRawOk THEN in.matrix ELSE EmptyDf
        /\ sensoryNote = IF sensoryNoteOk THEN in.table ELSE <<>>

\* no page is open and no plot was made
InitRender ==
    /\ pageLoaded = FALSE
    /\ selectedRecipes = {}
    /\ selectedButtons = {}
    /\ currentThreshold = InitialThreshold
    /\ sensoryHeader = <<>>
    /\ cells = <<>>
    /\ static_display = <<>>
    /\ staticFile = "absent"
    /\ interactive_fig = EmptyPlot
    /\ interactiveFile = "absent"

\* create_static_heatmap is called by no code of the repository: its caller is
\* modelled as holding the arguments that load_and_process_data,
\* create_sensory_groups and order_data_by_groups of the same file produce
InitPlots ==
    \E in \in PlotInputs :
        LET sg == create_sensory_groups(in.matrix, in.table)
            r  == order_data_by_groups(in.matrix, tobacco_groups, sg)
        IN  /\ prog = "plots"
            /\ pc = "organized"
            /\ dataRawOk = TRUE /\ sensoryNoteOk = TRUE
            /\ dataRaw = in.matrix /\ sensoryNote = in.table
            /\ df = in.matrix /\ sensory_df = in.table
            /\ sensory_groups = sg
            /\ recipe_order = r.recipe_order
            /\ ingredient_order = r.ingredient_order
            /\ recipe_groups = r.grouped_recipes
            /\ calls = <<>>
            /\ ingredient_groups = <<>>
            /\ html_content = EmptyPage
            /\ outputFile = "absent"
            /\ app = "None"
            /\ static_fig = EmptyFigure
            /\ serverRunning = FALSE
            /\ exception = ""
            /\ stdout = <<>>

Init ==
    /\ InitRender
    /\ \/ InitFiles(PipelineInputs) /\ InitRun
       \/ InitPlots

(***************************************************************************)
(* load_and_process_data, as both scripts define it up to the value        *)
(* returned on failure: a pair (None, None) in the standalone script, a    *)
(* 4-tuple of None in the dash script.                                     *)
(***************************************************************************)
LoadReports ==
    IF ~dataRawOk THEN <<"Error loading Data_Raw.xlsx">>
    ELSE IF ~sensoryNoteOk THEN <<"Error loading Sensory_Note.xlsx">>
    ELSE <<>>

\* the second load's failure not returned
LoadSucceedsMainOnly == dataRawOk

LoadSucceeds == dataRawOk /\ sensoryNoteOk

\* number of values load_and_process_data returns
LoadResultLen(script) ==
    IF LoadSucceeds THEN 2 ELSE IF script = "dash" THEN 4 ELSE 2

(***************************************************************************)
(* generate_standalone_heatmap.py: main.                                   *)
(***************************************************************************)
\* df, sensory_df = load_and_process_data(); if either is None: report, return
SA_Load ==
    /\ prog = "standalone" /\ pc = "start"
    /\ UNCHANGED renderVars
    /\ calls' = Append(calls, "load_and_process_data")
    /\ IF LoadSucceeds
       THEN /\ df' = dataRaw
            /\ sensory_df' = sensoryNote
            /\ stdout' = stdout \o LoadReports
            /\ pc' = "loaded"
       ELSE /\ stdout' = stdout \o LoadReports \o <<"Failed to load data. Exiting.">>
            /\ pc' = "done"
            /\ UNCHANGED <<df, sensory_df>>
    /\ UNCHANGED <<prog, dataRawOk, dataRaw, sensoryNoteOk, sensoryNote,
                   sensory_groups, recipe_order, ingredient_order, recipe_groups,
                   ingredient_groups, html_content, outputFile, app, static_fig,
                   serverRunning, exception>>

SA_Classify ==
    /\ prog = "standalone" /\ pc = "loaded"
    /\ UNCHANGED renderVars
    /\ calls' = Append(calls, "create_sensory_groups")
    /\ sensory_groups' = create_sensory_groups(df, sensory_df)
    /\ pc' = "classified"
    /\ UNCHANGED <<prog, dataRawOk, dataRaw, sensoryNoteOk, sensoryNote, df,
                   sensory_df, recipe_order, ingredient_order, recipe_groups,
                   ingredient_groups, html_content, outputFile, app, static_fig,
                   serverRunning, exception, stdout>>

SA_Organize ==
    /\ prog = "standalone" /\ pc = "classified"
    /\ UNCHANGED renderVars
    /\ calls' = Append(calls, "organize_data")
    /\ LET r == organize_data(df, tobacco_groups, sensory_groups)
       IN  /\ recipe_order' = r.recipe_order
           /\ ingredient_order' = r.ingredient_order
           /\ recipe_groups' = r.recipe_groups
           /\ ingredient_groups' = r.ingredient_groups
    /\ pc' = "organized"
    /\ UNCHANGED <<prog, dataRawOk, dataRaw, sensoryNoteOk, sensoryNote, df,
                   sensory_df, sensory_groups, html_content, outputFile, app,
                   static_fig, serverRunning, exception, stdout>>

SA_GenerateHtml ==
    /\ prog = "standalone" /\ pc = "organized"
    /\ UNCHANGED renderVars
    /\ calls' = Append(calls, "generate_html_file")
    /\ html_content' = generate_html_file(df, recipe_order, ingredient_order,
                                          recipe_groups, ingredient_groups)
    /\ pc' = "generated"
    /\ UNCHANGED <<prog, dataRawOk, dataRaw, sensoryNoteOk, sensoryNote, df,
                   sensory_df, sensory_groups, recipe_order, ingredient_order,
                   recipe_groups, ingredient_groups, outputFile, app, static_fig,
                   serverRunning, exception, stdout>>

\* with open(output_file, 'w') as f: f.write(html_content)
SA_Write ==
    /\ prog = "standalone" /\ pc = "generated"
    /\ UNCHANGED renderVars
    /\ calls' = Append(calls, "write")
    /\ outputFile' = "written"
    /\ pc' = "done"
    /\ UNCHANGED <<prog, dataRawOk, dataRaw, sensoryNoteOk, sensoryNote, df,
                   sensory_df, sensory_groups, recipe_order, ingredient_order,
                   recipe_groups, ingredient_groups, html_content, app,
                   static_fig, serverRunning, exception, stdout>>

(***************************************************************************)
(* tobacco_heatmap_FINAL.py: main and create_dash_server.                  *)
(***************************************************************************)
\* df, sensory_df = load_and_process_data(): unpacking a tuple of another
\* length raises ValueError, which nothing catches; if df is None: report,
\* return None, and main reports and returns
Dash_Load ==
    /\ prog = "dash" /\ pc = "start"
    /\ UNCHANGED renderVars
    /\ calls' = Append(calls, "load_and_process_data")
    /\ IF LoadResultLen("dash") # 2
       THEN /\ exception' = "ValueError"
            /\ stdout' = stdout \o LoadReports
            /\ pc' = "crashed"
            /\ UNCHANGED <<df, sensory_df>>
       ELSE IF ~LoadSucceeds
       THEN /\ stdout' = stdout \o LoadReports
                    \o <<"Failed to load data. Exiting.",
                         "Failed to create server. Exiting.">>
            /\ pc' = "done"
            /\ UNCHANGED <<df, sensory_df, exception>>
       ELSE /\ df' = dataRaw
            /\ sensory_df' = sensoryNote
            /\ stdout' = stdout \o LoadReports
            /\ pc' = "loaded"
            /\ UNCHANGED exception
    /\ UNCHANGED <<prog, dataRawOk, dataRaw, sensoryNoteOk, sensoryNote,
                   sensory_groups, recipe_order, ingredient_order, recipe_groups,
                   ingredient_groups, html_content, outputFile, app, static_fig,
                   serverRunning>>

Dash_Classify ==
    /\ prog = "dash" /\ pc = "loaded"
    /\ UNCHANGED renderVars
    /\ calls' = Append(calls, "create_sensory_groups")
    /\ sensory_groups' = create_sensory_groups(df, sensory_df)
    /\ pc' = "classified"
    /\ UNCHANGED <<prog, dataRawOk, dataRaw, sensoryNoteOk, sensoryNote, df,
                   sensory_df, recipe_order, ingredient_order, recipe_groups,
                   ingredient_groups, html_content, outputFile, app, static_fig,
                   serverRunning, exception, stdout>>

Dash_Order ==
    /\ prog = "dash" /\ pc = "classified"
    /\ UNCHANGED renderVars
    /\ calls' = Append(calls, "order_data_by_groups")
    /\ LET r == order_data_by_groups(df, tobacco_groups, sensory_groups)
       IN  /\ recipe_order' = r.recipe_order
           /\ ingredient_order' = r.ingredient_order
           /\ recipe_groups' = r.grouped_recipes
    /\ pc' = "organized"
    /\ UNCHANGED <<prog, dataRawOk, dataRaw, sensoryNoteOk, sensoryNote, df,
                   sensory_df, sensory_groups, ingredient_groups, html_content,
                   outputFile, app, static_fig, serverRunning, exception, stdout>>

\* app = dash.Dash(...); static_fig = create_heatmap_figure(); return app
Dash_Figure ==
    /\ prog = "dash" /\ pc = "organized"
    /\ UNCHANGED renderVars
    /\ calls' = Append(calls, "create_heatmap_figure")
    /\ static_fig' = create_heatmap_figure(df, recipe_order, ingredient_order,
                                           sensory_groups)
    /\ app' = "app"
    /\ pc' = "created"
    /\ UNCHANGED <<prog, dataRawOk, dataRaw, sensoryNoteOk, sensoryNote, df,
                   sensory_df, sensory_groups, recipe_order, ingredient_order,
                   recipe_groups, ingredient_groups, html_content, outputFile,
                   serverRunning, exception, stdout>>

\* main: app is not None; app.run(...)
Dash_Run ==
    /\ prog = "dash" /\ pc = "created"
    /\ UNCHANGED renderVars
    /\ calls' = Append(calls, "app.run")
    /\ serverRunning' = TRUE
    /\ pc' = "serving"
    /\ UNCHANGED <<prog, dataRawOk, dataRaw, sensoryNoteOk, sensoryNote, df,
                   sensory_df, sensory_groups, recipe_order, ingredient_order,
                   recipe_groups, ingredient_groups, html_content, outputFile,
                   app, static_fig, exception, stdout>>

(***************************************************************************)
(* The generated page in a browser.                                        *)
(***************************************************************************)
\* the script's top level: selectedRecipes = new Set(); currentThreshold = 0.4;
\* initialize(): createHeatmap(); updateHeatmap()
Page_Initialize ==
    /\ prog = "standalone" /\ outputFile = "written" /\ ~pageLoaded
    /\ pageLoaded' = TRUE
    /\ selectedRecipes' = {}
    /\ selectedButtons' = {}
    /\ currentThreshold' = InitialThreshold
    /\ sensoryHeader' = createHeader(html_content)
    /\ cells' = updateHeatmap(createHeatmap(html_content), InitialThreshold, {})
    /\ UNCHANGED <<pipelineVars, plotVars>>

\* the click only ever adding the recipe
toggleSelectionAddOnly(selected, recipe) == selected \cup {recipe}

\* if (selectedRecipes.has(recipe)) delete it, else add it
toggleSelection(selected, recipe) ==
    IF recipe \in selected THEN selected \ {recipe} ELSE selected \cup {recipe}

\* the click repainting before the selection is changed
toggleRecipeStale(recipe) ==
    /\ pageLoaded
    /\ recipe \in Range(html_content.recipeOrder)
    /\ cells' = updateHeatmap(cells, currentThreshold, selectedRecipes)
    /\ IF recipe \in selectedRecipes
       THEN /\ selectedRecipes' = selectedRecipes \ {recipe}
            /\ selectedButtons' = selectedButtons \ {recipe}
       ELSE /\ selectedRecipes' = selectedRecipes \cup {recipe}
            /\ selectedButtons' = selectedButtons \cup {recipe}
    /\ UNCHANGED <<pipelineVars, pageLoaded, currentThreshold, sensoryHeader,
                   plotVars>>

\* a click on a recipe's button
toggleRecipe(recipe) ==
    /\ pageLoaded
    /\ recipe \in Range(html_content.recipeOrder)
    /\ selectedRecipes' = toggleSelection(selectedRecipes, recipe)
    /\ selectedButtons' = IF recipe \in selectedRecipes
                          THEN selectedButtons \ {recipe}
                          ELSE selectedButtons \cup {recipe}
    /\ cells' = updateHeatmap(cells, currentThreshold, selectedRecipes')
    /\ UNCHANGED <<pipelineVars, pageLoaded, currentThreshold, sensoryHeader,
                   plotVars>>

\* the handler rebuilding the table: initialize() in place of updateHeatmap()
ThresholdInputReinitialize(text) ==
    /\ pageLoaded
    /\ currentThreshold' = ParseThreshold(text)
    /\ selectedButtons' = {}
    /\ sensoryHeader' = createHeader(html_content)
    /\ cells' = updateHeatmap(createHeatmap(html_content), currentThreshold',
                              selectedRecipes)
    /\ UNCHANGED <<pipelineVars, pageLoaded, selectedRecipes, plotVars>>

\* an input event of the threshold field
ThresholdInput(text) ==
    /\ pageLoaded
    /\ currentThreshold' = ParseThreshold(text)
    /\ cells' = updateHeatmap(cells, currentThreshold', selectedRecipes)
    /\ UNCHANGED <<pipelineVars, pageLoaded, selectedRecipes, selectedButtons,
                   sensoryHeader, plotVars>>

(***************************************************************************)
(* A call of create_static_heatmap(df, recipe_order, ingredient_order).    *)
(***************************************************************************)
\* the mask applied to the caller's frame: no selection by .loc, no .copy()
Static_CreateInPlace ==
    /\ prog = "plots" /\ pc = "organized" /\ staticFile = "absent"
    /\ calls' = Append(calls, "create_static_heatmap")
    /\ static_display' = create_static_heatmap(df, recipe_order, ingredient_order)
    /\ df' = [df EXCEPT !.val = [c \in DOMAIN df.val |->
                                    MaskAtOrBelow(df.val[c], StaticThreshold)]]
    /\ staticFile' = "written"
    /\ UNCHANGED <<prog, pc, dataRawOk, dataRaw, sensoryNoteOk, sensoryNote,
                   sensory_df, sensory_groups, recipe_order, ingredient_order,
                   recipe_groups, ingredient_groups, html_content, outputFile,
                   app, static_fig, serverRunning, exception, stdout>>
    /\ UNCHANGED <<pageLoaded, selectedRecipes, selectedButtons,
                   currentThreshold, sensoryHeader, cells, interactive_fig,
                   interactiveFile>>

Static_Create ==
    /\ prog = "plots" /\ pc = "organized" /\ staticFile = "absent"
    /\ calls' = Append(calls, "create_static_heatmap")
    /\ static_display' = create_static_heatmap(df, recipe_order, ingredient_order)
    /\ staticFile' = "written"
    /\ UNCHANGED <<prog, pc, dataRawOk, dataRaw, sensoryNoteOk, sensoryNote, df,
                   sensory_df, sensory_groups, recipe_order, ingredient_order,
                   recipe_groups, ingredient_groups, html_content, outputFile,
                   app, static_fig, serverRunning, exception, stdout>>
    /\ UNCHANGED <<pageLoaded, selectedRecipes, selectedButtons,
                   currentThreshold, sensoryHeader, cells, interactive_fig,
                   interactiveFile>>

(***************************************************************************)
(* A call of create_interactive_heatmap(df, recipe_order, ingredient_order,*)
(* grouped_recipes, tobacco_groups).                                       *)
(***************************************************************************)
\* the lookup of a group's recipes raises KeyError before any trace of the
\* group is made; otherwise the figure is built and written
Interactive_Create ==
    /\ prog = "plots" /\ pc = "organized" /\ interactiveFile = "absent"
    /\ calls' = Append(calls, "create_interactive_heatmap")
    /\ IF \E g \in Range(TobaccoGroupNames) :
              LocRaises(recipe_order, tobacco_groups[g])
       THEN /\ exception' = "KeyError"
            /\ pc' = "crashed"
            /\ UNCHANGED <<interactive_fig, interactiveFile>>
       ELSE /\ interactive_fig' =
                  create_interactive_heatmap(df, recipe_order, ingredient_order,
                                             tobacco_groups)
            /\ interactiveFile' = "written"
            /\ UNCHANGED <<exception, pc>>
    /\ UNCHANGED <<prog, dataRawOk, dataRaw, sensoryNoteOk, sensoryNote, df,
                   sensory_df, sensory_groups, recipe_order, ingredient_order,
                   recipe_groups, ingredient_groups, html_content, outputFile,
                   app, static_fig, serverRunning, stdout>>
    /\ UNCHANGED <<pageLoaded, selectedRecipes, selectedButtons,
                   currentThreshold, sensoryHeader, cells, static_display,
                   staticFile>>

(***************************************************************************)
(* The written Plotly figure in a browser: a choice in the dropdown menu.  *)
(***************************************************************************)
\* method "update": the button's 'visible' list is applied to the traces and
\* its title to the layout; the menu marks the button active
Dropdown_Select(b) ==
    /\ prog = "plots" /\ interactiveFile = "written"
    /\ b \in DOMAIN interactive_fig.buttons
    /\ interactive_fig' =
          [interactive_fig EXCEPT
              !.traces = [k \in DOMAIN @ |->
                            [@[k] EXCEPT !.visible =
                                interactive_fig.buttons[b].visible[k]]],
              !.title = interactive_fig.buttons[b].title,
              !.active = b - 1]
    /\ UNCHANGED <<pipelineVars, pageLoaded, selectedRecipes, selectedButtons,
                   currentThreshold, sensoryHeader, cells, static_display,
                   staticFile, interactiveFile>>

Next ==
    \/ SA_Load \/ SA_Classify \/ SA_Organize \/ SA_GenerateHtml \/ SA_Write
    \/ Dash_Load \/ Dash_Classify \/ Dash_Order \/ Dash_Figure \/ Dash_Run
    \/ Page_Initialize
    \/ \E recipe \in Range(html_content.recipeOrder) : toggleRecipe(recipe)
    \/ \E text \in ThresholdTexts : ThresholdInput(text)
    \/ Static_Create
    \/ Interactive_Create
    \/ \E b \in 1..(Len(TobaccoGroupNames) + 1) : Dropdown_Select(b)

Spec == Init /\ [][Next]_vars

(***************************************************************************)
(* Vocabulary of the properties.                                           *)
(***************************************************************************)
Called(f) == f \in Range(calls)

\* the order builder of the running script has returned
Ordered == Called("organize_data") \/ Called("order_data_by_groups")

Classified == Called("create_sensory_groups")

LoadFailed == ~(dataRawOk /\ sensoryNoteOk)

\* the group lists one after the other, in declared order G1, G2, G3, G4
AllListedRecipes ==
    tobacco_groups["G1 - MGO and Filed"] \o tobacco_groups["G2"]
        \o tobacco_groups["G3"] \o tobacco_groups["G4 - Unique"]

NoDuplicates(s) == \A i, j \in DOMAIN s : i # j => s[i] # s[j]

\* s is t with some elements left out
IsSubsequence(s, t) ==
    \E f \in [DOMAIN s -> DOMAIN t] :
        /\ \A i \in DOMAIN s : t[f[i]] = s[i]
        /\ \A i, j \in DOMAIN s : i < j => f[i] < f[j]

Occurrences(s, x) == Cardinality({i \in DOMAIN s : s[i] = x})

NamedSensoryGroups ==
    {"Sweet", "Dry", "Rich", "Light", "Smooth", "Harsh", "Cooling"}

\* rows of the loaded classification table that name the ingredient and carry
\* a label
LabelRows(ingredient) ==
    {k \in DOMAIN sensory_df :
        /\ sensory_df[k].product = ingredient
        /\ sensory_df[k].product # "NaN"
        /\ sensory_df[k].note # "NaN"}

\* the group the classification table assigns: that of the last such row when
\* its label is a named group, Ungrouped otherwise
AssignedGroup(ingredient) ==
    LET rows == LabelRows(ingredient)
    IN  IF rows = {} THEN "Ungrouped"
        ELSE LET last == CHOOSE k \in rows : \A m \in rows : m <= k
             IN  IF sensory_df[last].note \in NamedSensoryGroups
                 THEN sensory_df[last].note ELSE "Ungrouped"

\* the members of the classifier's lists present in the matrix, over the eight
\* groups Sweet, Dry, Rich, Light, Smooth, Harsh, Cooling, Ungrouped
AllGroupedIngredients ==
    LET present(g) == SelectSeq(sensory_groups[g],
                                LAMBDA i : i \in Range(df.columns))
    IN  present("Sweet") \o present("Dry") \o present("Rich") \o present("Light")
            \o present("Smooth") \o present("Harsh") \o present("Cooling")
            \o present("Ungrouped")

(***************************************************************************)
(* Properties.                                                             *)
(***************************************************************************)
\* C1: once the order builder has run, recipe_order is the concatenation over
\* G1, G2, G3, G4 of each group's members that are rows of the matrix, in list
\* order; it has no duplicate and is a subsequence of the concatenated lists.
C1_RecipeOrder ==
    Ordered =>
        /\ recipe_order =
              SelectSeq(AllListedRecipes, LAMBDA r : r \in df.index)
        /\ NoDuplicates(recipe_order)
        /\ IsSubsequence(recipe_order, AllListedRecipes)

\* two rows of different groups, ordered by group
C1_Witness ==
    /\ Ordered
    /\ Len(recipe_order) = 2
    /\ recipe_order[1] \in Range(tobacco_groups["G2"])
    /\ recipe_order[2] \in Range(tobacco_groups["G4 - Unique"])
    /\ UnlistedRecipe \notin df.index

\* C2: once the order builder has run (either script), ingredient_order is the
\* concatenation of the present members of the 8 sensory groups in the order
\* Sweet, Dry, Rich, Light, Smooth, Harsh, Cooling, Ungrouped, and every matrix
\* column appears in it exactly once.
C2_IngredientOrder ==
    Ordered =>
        /\ ingredient_order = AllGroupedIngredients
        /\ \A i \in Range(df.columns) : Occurrences(ingredient_order, i) = 1

\* C3: once the classifier has run, every matrix column is in exactly one of
\* the 8 lists, exactly once, and the lists hold matrix columns only.
C3_ExactlyOneGroup ==
    Classified =>
        /\ \A i \in Range(df.columns) :
              Cardinality({<<g, k>> \in SensoryGroupKeys \X (1..Len(df.columns)) :
                              /\ k \in DOMAIN sensory_groups[g]
                              /\ sensory_groups[g][k] = i}) = 1
        /\ \A g \in SensoryGroupKeys :
              Range(sensory_groups[g]) \subseteq Range(df.columns)

\* a labelled column and an unlabelled one, in different lists
C3_Witness ==
    /\ Classified
    /\ Len(df.columns) = 2
    /\ Len(sensory_groups["Sweet"]) = 1
    /\ Len(sensory_groups["Ungrouped"]) = 1

\* C4: once the classifier has run, each group's list is the matrix columns
\* assigned to it by the table (the label when it names one of the 7 groups,
\* Ungrouped otherwise), in matrix column order.
C4_PlacedByLabel ==
    Classified =>
        \A g \in SensoryGroupKeys :
            sensory_groups[g] =
                SelectSeq(df.columns, LAMBDA i : AssignedGroup(i) = g)

\* two columns with the same named label, kept in matrix order
C4_Witness ==
    /\ Classified
    /\ df.columns = <<"ingB", "ingA">>
    /\ sensory_df = <<[product |-> "ingA", note |-> "Cooling"],
                      [product |-> "ingB", note |-> "Cooling"]>>
    /\ sensory_groups["Cooling"] = <<"ingB", "ingA">>

\* C5: a row of the matrix listed in no recipe group is never in recipe_order
\* nor a key of the recipe-to-group lookup; rows {A, B} with A in G1 and B
\* unlisted give recipe_order = [A].
C5_UnlistedDropped ==
    /\ \A r \in df.index :
          r \notin Range(AllListedRecipes) =>
              r \notin Range(recipe_order) /\ r \notin DOMAIN recipe_groups
    /\ (Ordered /\ df.index = {tobacco_groups["G1 - MGO and Filed"][1],
                               UnlistedRecipe}) =>
          recipe_order = <<tobacco_groups["G1 - MGO and Filed"][1]>>

C5_Witness ==
    /\ Ordered
    /\ df.index = {tobacco_groups["G1 - MGO and Filed"][1], UnlistedRecipe}
    /\ DOMAIN recipe_groups = {tobacco_groups["G1 - MGO and Filed"][1]}

\* C6: in the standalone script, once organize_data has run, every matrix
\* column with no row in the classification table is a key of
\* ingredient_groups with value "Ungrouped", and no exception was raised.
C6_UnmatchedUngrouped ==
    (prog = "standalone" /\ Called("organize_data")) =>
        /\ exception = ""
        /\ \A x \in Range(df.columns) :
              (\A k \in DOMAIN sensory_df : sensory_df[k].product # x) =>
                  /\ x \in DOMAIN ingredient_groups
                  /\ ingredient_groups[x] = "Ungrouped"

C6_Witness ==
    /\ prog = "standalone"
    /\ Called("organize_data")
    /\ df.columns = <<"ingX", "ingA">>
    /\ sensory_df # <<>>
    /\ ingredient_groups["ingX"] = "Ungrouped"
    /\ ingredient_groups["ingA"] = "Harsh"

\* cells of the page that pass the threshold t under the page's comparison
PageVisibleAt(t) ==
    {c \in DOMAIN cells : isAboveThreshold(cells[c].value, t)}

\* cells of the static plot left unmasked when the values <= t are masked
StaticVisibleAt(t) ==
    {c \in DOMAIN static_display :
        ~isnan(MaskAtOrBelow(df.val[<<recipe_order[c[1]], ingredient_order[c[2]]>>],
                             t))}

\* the thresholds compared: those that can be typed, the page's current one and
\* the static plot's
ComparedThresholds == ThresholdGrid \cup {currentThreshold, StaticThreshold}

\* C7: for all thresholds t1 < t2 the cells visible at t2 are among those
\* visible at t1, in the page (value >= t) and in the static plot (value > t);
\* the cells shown at the current threshold are the visible set at that value.
C7_ThresholdMonotone ==
    /\ pageLoaded =>
          /\ \A t1, t2 \in ComparedThresholds :
                t1 < t2 => PageVisibleAt(t2) \subseteq PageVisibleAt(t1)
          /\ \A c \in DOMAIN cells :
                c \notin PageVisibleAt(currentThreshold) =>
                    cells[c].backgroundColor = NeutralColour
    /\ staticFile = "written" =>
          /\ \A t1, t2 \in ComparedThresholds :
                t1 < t2 => StaticVisibleAt(t2) \subseteq StaticVisibleAt(t1)
          /\ {c \in DOMAIN static_display : ~isnan(static_display[c])}
                = StaticVisibleAt(StaticThreshold)

\* the threshold was raised to 0.5 over a cell of 0.45, which is hidden, beside
\* a cell of 0.5, which is shown
C7_Witness ==
    /\ pageLoaded
    /\ currentThreshold = 50
    /\ \E c, e \in DOMAIN cells :
          /\ cells[c].value = 45 /\ cells[c].backgroundColor = NeutralColour
          /\ cells[e].value = 50 /\ cells[e].backgroundColor # NeutralColour

\* C8: a cell whose value equals the threshold passes in the page (it gets the
\* colour of a passing cell, which for a positive value is not the neutral
\* background) and is masked in the static plot, whose threshold is 0.45.
C8_EqualToThreshold ==
    /\ pageLoaded =>
          \A c \in DOMAIN cells :
              cells[c].value = currentThreshold =>
                  /\ cells[c].backgroundColor =
                        IF cells[c].recipe \in selectedRecipes
                        THEN getColor(cells[c].value) ELSE InactiveColour
                  /\ cells[c].value > 0 =>
                        cells[c].backgroundColor # NeutralColour
    /\ staticFile = "written" =>
          \A c \in DOMAIN static_display :
              df.val[<<recipe_order[c[1]], ingredient_order[c[2]]>>]
                    = Float(StaticThreshold)
                => isnan(static_display[c])

\* the threshold field holds 0.45 and a cell of 0.45 is drawn as passing
C8_Witness ==
    /\ pageLoaded
    /\ currentThreshold = 45
    /\ \E c \in DOMAIN cells :
          /\ cells[c].value = 45
          /\ cells[c].recipe \notin selectedRecipes
          /\ cells[c].backgroundColor = InactiveColour

\* C9: in the standalone script, when either spreadsheet fails to load, the
\* failure is reported, main returns without calling the classifier, the order
\* builder or the HTML generator, and the output file is not written; the file
\* is written only when both loads succeeded.
C9_LoadFailureAborts ==
    prog = "standalone" =>
        /\ (LoadFailed /\ pc # "start") =>
              /\ pc = "done"
              /\ calls = <<"load_and_process_data">>
              /\ stdout = LoadReports \o <<"Failed to load data. Exiting.">>
              /\ LoadReports # <<>>
              /\ html_content = EmptyPage
        /\ LoadFailed => outputFile = "absent"
        /\ outputFile = "written" => dataRawOk /\ sensoryNoteOk

\* the second spreadsheet alone is unreadable and main has returned
C9_Witness ==
    /\ prog = "standalone"
    /\ dataRawOk /\ ~sensoryNoteOk
    /\ pc = "done"
    /\ outputFile = "absent"

\* C10: in the dash script, when either spreadsheet fails to load,
\* create_dash_server reports the failure and returns None without building a
\* figure, main reports and returns without starting the server, and no
\* exception escapes.
C10_DashLoadFailureClean ==
    (prog = "dash" /\ LoadFailed /\ pc # "start") =>
        /\ exception = ""
        /\ pc = "done"
        /\ app = "None"
        /\ static_fig = EmptyFigure
        /\ ~serverRunning
        /\ stdout = LoadReports \o <<"Failed to load data. Exiting.",
                                     "Failed to create server. Exiting.">>

\* C11: in the open page, after any toggles and threshold changes, the grid
\* has exactly one row per entry of recipeOrder and one cell per entry of
\* ingredientOrder in each row, and every cell whose value is at or above the
\* threshold and whose recipe is not selected has the inactive gray background.
C11_UnselectedShownInactive ==
    pageLoaded =>
        /\ DOMAIN cells = (1..Len(html_content.recipeOrder))
                              \X (1..Len(html_content.ingredientOrder))
        /\ \A c \in DOMAIN cells :
              (cells[c].value >= currentThreshold
                  /\ cells[c].recipe \notin selectedRecipes)
                  => cells[c].backgroundColor = <<211, 211, 211>>

\* a 2 x 2 grid at threshold 0.45 with one recipe selected: the other recipe's
\* passing cell is gray and still there
C11_Witness ==
    /\ pageLoaded
    /\ currentThreshold = 45
    /\ Cardinality(selectedRecipes) = 1
    /\ Cardinality(DOMAIN cells) = 4
    /\ \E c \in DOMAIN cells :
          /\ cells[c].value = 50
          /\ cells[c].recipe \notin selectedRecipes
          /\ cells[c].backgroundColor = <<211, 211, 211>>

\* C12: in the open page every cell whose value is below the threshold has the
\* neutral background whatever the selection, a cell whose matrix entry is
\* absent carries the value 0, and no exception was raised.
C12_BelowThresholdNeutral ==
    pageLoaded =>
        /\ exception = ""
        /\ \A c \in DOMAIN cells :
              /\ cells[c].value < currentThreshold
                    => cells[c].backgroundColor = <<240, 240, 240>>
              /\ df.val[<<cells[c].recipe, cells[c].ingredient>>] = <<>>
                    => cells[c].value = 0

\* an absent entry, exported as 0, in the row of a selected recipe at
\* threshold 0.4: neutral
C12_Witness ==
    /\ pageLoaded
    /\ currentThreshold = 40
    /\ \E c \in DOMAIN cells :
          /\ df.val[<<cells[c].recipe, cells[c].ingredient>>] = <<>>
          /\ cells[c].value = 0
          /\ cells[c].recipe \in selectedRecipes
          /\ cells[c].backgroundColor = <<240, 240, 240>>

\* the group that owns a recipe, and the sensory group that owns an ingredient
RecipeGroupOf(recipe) ==
    CHOOSE g \in Range(TobaccoGroupNames) : recipe \in Range(tobacco_groups[g])

SensoryGroupOf(ingredient) ==
    CHOOSE g \in SensoryGroupKeys : ingredient \in Range(sensory_groups[g])

\* the page marks the column boundaries: a left border on every cell of a
\* column whose sensory group differs from the previous column's
PageColumnsMarked ==
    \A c \in DOMAIN cells :
        (c[2] > 1 /\ SensoryGroupOf(html_content.ingredientOrder[c[2]])
                        # SensoryGroupOf(html_content.ingredientOrder[c[2] - 1]))
            => cells[c].borderLeft # ""

\* the page marks the row boundaries: a top border in every row whose recipe
\* group differs from the previous row's
PageRowsMarked ==
    \A c \in DOMAIN cells :
        (c[1] > 1 /\ RecipeGroupOf(html_content.recipeOrder[c[1]])
                        # RecipeGroupOf(html_content.recipeOrder[c[1] - 1]))
            => cells[c].borderTop # ""

\* the dashboard figure has a divider line before every element whose group
\* differs from the previous element's, along x and along y
FigureMarked ==
    /\ \A k \in 2..Len(static_fig.x) :
          SensoryGroupOf(static_fig.x[k]) # SensoryGroupOf(static_fig.x[k - 1])
              => (k - 1) \in static_fig.vlines
    /\ \A k \in 2..Len(static_fig.y) :
          RecipeGroupOf(static_fig.y[k]) # RecipeGroupOf(static_fig.y[k - 1])
              => (k - 1) \in static_fig.hlines

\* C13: in each rendered grid, along the recipe axis and along the ingredient
\* axis, a boundary marker is placed at every index k > 0 whose element belongs
\* to another group than the element at k - 1.
C13_BoundariesMarked ==
    /\ pageLoaded => (PageColumnsMarked /\ PageRowsMarked)
    /\ Called("create_heatmap_figure") => FigureMarked

\* a cell without its background
Unpainted(cell) == [cell EXCEPT !.backgroundColor = <<>>]

\* C14: an input event of the threshold field changes only currentThreshold
\* and the cells' backgrounds: the embedded recipeOrder, ingredientOrder,
\* heatmapData, groupedRecipes and groupedIngredients, the selection, the
\* buttons, the header, the set of cells and every other field of a cell are
\* the same after it.
C14_ThresholdFrame ==
    [][(\E text \in ThresholdTexts : ThresholdInput(text)) =>
          /\ html_content' = html_content
          /\ selectedRecipes' = selectedRecipes
          /\ selectedButtons' = selectedButtons
          /\ sensoryHeader' = sensoryHeader
          /\ pageLoaded' = pageLoaded
          /\ pipelineVars' = pipelineVars
          /\ plotVars' = plotVars
          /\ DOMAIN cells' = DOMAIN cells
          /\ \A c \in DOMAIN cells : Unpainted(cells'[c]) = Unpainted(cells[c])]_vars

\* a threshold of 0.5 typed while a recipe is selected: its 0.45 cell has
\* turned neutral, and the selection and its button are as they were
C14_Witness ==
    /\ pageLoaded
    /\ currentThreshold = 50
    /\ selectedRecipes # {}
    /\ selectedButtons = selectedRecipes
    /\ \E c \in DOMAIN cells :
          /\ cells[c].value = 45
          /\ cells[c].recipe \in selectedRecipes
          /\ cells[c].backgroundColor = <<240, 240, 240>>

\* C15: in the open page the backgrounds are a function of the cell's value,
\* the current threshold and the current selection only: whatever the history
\* of toggles and threshold inputs, the cells are those a fresh table painted
\* with the current threshold and selection has, and running updateHeatmap
\* again changes no cell.
C15_BackgroundIsFunction ==
    pageLoaded =>
        /\ cells = updateHeatmap(createHeatmap(html_content), currentThreshold,
                                 selectedRecipes)
        /\ updateHeatmap(cells, currentThreshold, selectedRecipes) = cells

\* after a toggle and a threshold input, in either order: threshold 0.45, one
\* of two recipes selected, its passing cell on the ramp and the other's gray
C15_Witness ==
    /\ pageLoaded
    /\ currentThreshold = 45
    /\ Cardinality(selectedRecipes) = 1
    /\ \E c, e \in DOMAIN cells :
          /\ cells[c].recipe \in selectedRecipes
          /\ cells[c].value = 50
          /\ cells[c].backgroundColor = <<33, 144, 141>>
          /\ cells[e].recipe \notin selectedRecipes
          /\ cells[e].value = 45
          /\ cells[e].backgroundColor = <<211, 211, 211>>

\* the cells getColor has painted: passing cells of selected recipes
OnRamp(c) ==
    /\ cells[c].recipe \in selectedRecipes
    /\ cells[c].value >= currentThreshold

\* C16: getColor maps the value 0.0 to the ramp's first stop, rgb(68, 1, 84).
C16_ZeroIsFirstStop ==
    pageLoaded =>
        \A c \in DOMAIN cells :
            (OnRamp(c) /\ cells[c].value = 0)
                => cells[c].backgroundColor = <<68, 1, 84>>

Abs(n) == IF n < 0 THEN -n ELSE n

\* colour is, per channel, the integer nearest to the linear interpolation
\* between the stops at 0.25 * k and 0.25 * (k + 1), at value v in hundredths
InterpolatesAt(colour, v, k) ==
    \A ch \in 1..3 :
        2 * Abs(25 * colour[ch]
                  - (25 * colors[k + 1][ch]
                       + (colors[k + 2][ch] - colors[k + 1][ch]) * (v - 25 * k)))
            <= 25

\* C17: for every value v of the grid with 0 < v, getColor returns the colour
\* whose channels are the rounded linear interpolation between the two nearest
\* of the five stops at 0, 0.25, 0.5, 0.75 and 1.0; the value 1.0 gives the
\* last stop, the value 0.5 the stop at the middle of the ramp, and a value
\* above 1 the last stop.
C17_RampInterpolation ==
    pageLoaded =>
        \A c \in DOMAIN cells :
            (OnRamp(c) /\ cells[c].value > 0) =>
                LET v == cells[c].value
                    colour == cells[c].backgroundColor
                IN  /\ v <= 100 =>
                          \E k \in 0..3 :
                              /\ 25 * k <= v /\ v <= 25 * (k + 1)
                              /\ InterpolatesAt(colour, v, k)
                    /\ v >= 100 => colour = <<253, 231, 37>>
                    /\ v = 50 => colour = <<33, 144, 141>>

\* the value 0.3 on the ramp: a fifth of the way from the second stop to the
\* third
C17_Witness ==
    /\ pageLoaded
    /\ \E c \in DOMAIN cells :
          /\ OnRamp(c)
          /\ cells[c].value = 30
          /\ cells[c].backgroundColor = <<54, 94, 139>>

\* the rows of the loaded classification table with a name and a label
CompleteRows ==
    SelectSeq(sensory_df, LAMBDA row : row.product # "NaN" /\ row.note # "NaN")

\* the rows of the loaded classification table that name the ingredient
RowsNaming(ingredient) ==
    {k \in DOMAIN sensory_df : sensory_df[k].product = ingredient}

\* C18: rows of the classification table with a missing name or a missing
\* label contribute nothing: the classifier's lists are those it builds from
\* the table without these rows, and a column whose rows all lack the label is
\* in the Ungrouped list, as a column with no row is.
C18_IncompleteRowsIgnored ==
    Classified =>
        /\ sensory_groups = create_sensory_groups(df, CompleteRows)
        /\ \A i \in Range(df.columns) :
              (\A k \in RowsNaming(i) : sensory_df[k].note = "NaN")
                  => /\ i \in Range(sensory_groups["Ungrouped"])
                     /\ \A g \in NamedSensoryGroups :
                           i \notin Range(sensory_groups[g])

\* a table of a row for ingA without label and a row without name labelled
\* Sweet: ingA is Ungrouped and the Sweet list is empty
C18_Witness ==
    /\ Classified
    /\ sensory_df = <<[product |-> "ingA", note |-> "NaN"],
                       [product |-> "NaN", note |-> "Sweet"]>>
    /\ "ingA" \in Range(df.columns)
    /\ "ingA" \in Range(sensory_groups["Ungrouped"])
    /\ sensory_groups["Sweet"] = <<>>

\* C19: several rows for one ingredient raise no error, and the ingredient is
\* grouped by the last of its rows that has a label: a later row without label
\* does not undo an earlier label, and a later label replaces an earlier one.
C19_LastLabelWins ==
    Classified =>
        /\ exception = ""
        /\ \A i \in Range(df.columns) :
              \A k \in RowsNaming(i) :
                  (/\ sensory_df[k].note \in NamedSensoryGroups
                   /\ \A m \in RowsNaming(i) :
                         m > k => sensory_df[m].note = "NaN")
                      => i \in Range(sensory_groups[sensory_df[k].note])

\* ingA labelled Sweet, then Dry: it is in the Dry list and not in the Sweet
\* list
C19_Witness ==
    /\ Classified
    /\ sensory_df = <<[product |-> "ingA", note |-> "Sweet"],
                       [product |-> "ingA", note |-> "Dry"]>>
    /\ "ingA" \in Range(sensory_groups["Dry"])
    /\ "ingA" \notin Range(sensory_groups["Sweet"])

\* the step is a call of f
StepOf(f) == calls' = Append(calls, f)

\* C20: no stage changes another stage's data.  A call of an order builder
\* leaves the matrix, the classification table and the classifier's lists as
\* they were; a call of a rendering function (generate_html_file,
\* create_static_heatmap, create_interactive_heatmap, create_heatmap_figure)
\* leaves the matrix, recipe_order and ingredient_order as they were.
C20_StagesShareNothing ==
    [][/\ (StepOf("organize_data") \/ StepOf("order_data_by_groups"))
            => /\ df' = df
               /\ sensory_df' = sensory_df
               /\ sensory_groups' = sensory_groups
       /\ (\/ StepOf("generate_html_file")
           \/ StepOf("create_static_heatmap")
           \/ StepOf("create_interactive_heatmap")
           \/ StepOf("create_heatmap_figure"))
            => /\ df' = df
               /\ recipe_order' = recipe_order
               /\ ingredient_order' = ingredient_order]_vars

\* both plot functions have returned on a matrix of 0.45: the plotted frame
\* and the traces are masked, the matrix still holds 0.45
C20_Witness ==
    /\ Called("create_static_heatmap")
    /\ Called("create_interactive_heatmap")
    /\ interactiveFile = "written"
    /\ static_display[<<1, 1>>] = <<>>
    /\ interactive_fig.traces[1].z[1][1] = <<>>
    /\ df.val[<<recipe_order[1], ingredient_order[1]>>] = <<45>>

\* the matrix entries the three figures of tobacco_heatmap_FINAL.py plot, with
\* whether the figure shows them: (value, shown) pairs
PlotlyEntries ==
    {<<df.val[<<recipe_order[i], ingredient_order[j]>>],
       interactive_fig.traces[1].z[i][j] # <<>>>> :
        i \in 1..Len(recipe_order), j \in 1..Len(ingredient_order)}

DashEntries ==
    {<<df.val[<<static_fig.y[i], static_fig.x[j]>>], static_fig.z[i][j] # <<>>>> :
        i \in 1..Len(static_fig.y), j \in 1..Len(static_fig.x)}

StaticEntries ==
    {<<df.val[<<recipe_order[c[1]], ingredient_order[c[2]]>>],
       static_display[c] # <<>>>> : c \in DOMAIN static_display}

\* t is the cutoff: every value above t is shown, every value below t is not
CutoffIs(entries, t) ==
    \A e \in entries :
        e[1] # <<>> => /\ e[1][1] > t => e[2]
                       /\ e[1][1] < t => ~e[2]

\* exactly the values above t are shown
ShownIffAbove(entries, t) ==
    \A e \in entries : e[2] <=> (e[1] # <<>> /\ e[1][1] > t)

PlotlyBuilt == interactiveFile = "written"

DashBuilt == Called("create_heatmap_figure")

StaticBuilt == staticFile = "written"

\* C21: the initial threshold is 0.4 in every interactive variant (the page,
\* the Plotly figure, the dashboard figure) and 0.45 in the static plot.
C21_DefaultThresholds ==
    [][/\ Page_Initialize => currentThreshold' = 40
       /\ PlotlyBuilt' => CutoffIs(PlotlyEntries, 40)'
       /\ DashBuilt' => CutoffIs(DashEntries, 40)'
       /\ StaticBuilt' => CutoffIs(StaticEntries, 45)']_vars

\* C21, amended: the initial threshold is 0.4 in the standalone page and 0.45
\* in the static plot and in the Plotly figure, which show exactly the values
\* above 0.45; the dashboard figure has no threshold and shows exactly the
\* values above 0.
C21_ThresholdPerVariant ==
    [][/\ Page_Initialize => currentThreshold' = 40
       /\ PlotlyBuilt' => ShownIffAbove(PlotlyEntries, 45)'
       /\ DashBuilt' => ShownIffAbove(DashEntries, 0)'
       /\ StaticBuilt' => ShownIffAbove(StaticEntries, 45)']_vars

\* the Plotly figure of a matrix of 0.45: built, and the value is not shown
C21_Witness ==
    /\ PlotlyBuilt
    /\ <<<<45>>, FALSE>> \in PlotlyEntries
    /\ ~StaticBuilt

\* C22: create_interactive_heatmap raises no error when a listed recipe is
\* not a row of the matrix, and the trace of every group is built from exactly
\* the group's recipes that are rows of the matrix.
C22_AbsentRecipesDropped ==
    Called("create_interactive_heatmap") =>
        /\ exception = ""
        /\ Len(interactive_fig.traces) = Len(TobaccoGroupNames) + 1
        /\ \A k \in 1..Len(TobaccoGroupNames) :
              interactive_fig.traces[k + 1].y =
                  SelectSeq(tobacco_groups[TobaccoGroupNames[k]],
                            LAMBDA recipe : recipe \in df.index)

\* the cell's background is the colour of the five-stop ramp at the cell's
\* value, the value clamped to [0, 1]
DrawnOnRamp(c) ==
    LET v == IF cells[c].value > 100 THEN 100
             ELSE IF cells[c].value < 0 THEN 0 ELSE cells[c].value
        k == IF v = 100 THEN 3 ELSE v \div 25
    IN  InterpolatesAt(cells[c].backgroundColor, v, k)

\* C23: in every reachable state of the page a cell is drawn in its ramp
\* colour if and only if its value is at or above currentThreshold and its
\* recipe is selected; so while no recipe is selected no cell is drawn in a
\* ramp colour and every passing cell is inactive gray.
C23_RampIffPassingAndSelected ==
    pageLoaded =>
        /\ \A c \in DOMAIN cells :
              DrawnOnRamp(c) <=> (/\ cells[c].value >= currentThreshold
                                  /\ cells[c].recipe \in selectedRecipes)
        /\ selectedRecipes = {} =>
              \A c \in DOMAIN cells :
                  cells[c].value >= currentThreshold
                      => cells[c].backgroundColor = <<211, 211, 211>>

\* C24: in the page the selection starts empty and is always a subset of
\* recipeOrder; a click on a recipe's button never changes currentThreshold,
\* a second click on the same button gives back the selection before the
\* first, and clicks on two different buttons give the same selection in
\* either order.
C24_ToggleAlgebra ==
    [][/\ Page_Initialize => selectedRecipes' = {}
       /\ \A r \in Range(html_content.recipeOrder) :
             toggleRecipe(r) =>
                 /\ currentThreshold' = currentThreshold
                 /\ selectedRecipes' \subseteq Range(html_content.recipeOrder)
                 /\ toggleSelection(selectedRecipes', r) = selectedRecipes
                 /\ \A q \in Range(html_content.recipeOrder) \ {r} :
                       toggleSelection(selectedRecipes', q)
                           = toggleSelection(toggleSelection(selectedRecipes, q),
                                             r)]_vars

\* both recipes of a two-row page selected, at a threshold typed before
C24_Witness ==
    /\ pageLoaded
    /\ Len(html_content.recipeOrder) = 2
    /\ selectedRecipes = Range(html_content.recipeOrder)
    /\ currentThreshold = 50

RECURSIVE SpanSum(_, _)
\* the sum of the colSpans of the first k header cells
SpanSum(header, k) ==
    IF k = 0 THEN 0 ELSE SpanSum(header, k - 1) + header[k].colSpan

\* C25: in the page data, the lists of groupedIngredients one after the other
\* in the order Sweet, Dry, Rich, Light, Smooth, Harsh, Cooling, Ungrouped are
\* ingredientOrder, and the lists of groupedRecipes in the order G1..G4 are
\* recipeOrder; in the open page the header's colSpans sum to the number of
\* columns, and each header cell spans exactly the columns whose
\* getIngredientGroup is its group.
C25_GroupedListsConcatenate ==
    /\ Called("generate_html_file") =>
          /\ html_content.ingredientOrder =
                html_content.groupedIngredients["Sweet"]
                    \o html_content.groupedIngredients["Dry"]
                    \o html_content.groupedIngredients["Rich"]
                    \o html_content.groupedIngredients["Light"]
                    \o html_content.groupedIngredients["Smooth"]
                    \o html_content.groupedIngredients["Harsh"]
                    \o html_content.groupedIngredients["Cooling"]
                    \o html_content.groupedIngredients["Ungrouped"]
          /\ html_content.recipeOrder =
                html_content.groupedRecipes["G1 - MGO and Filed"]
                    \o html_content.groupedRecipes["G2"]
                    \o html_content.groupedRecipes["G3"]
                    \o html_content.groupedRecipes["G4 - Unique"]
    /\ pageLoaded =>
          /\ SpanSum(sensoryHeader, Len(sensoryHeader))
                = Len(html_content.ingredientOrder)
          /\ \A k \in DOMAIN sensoryHeader :
                {j \in DOMAIN html_content.ingredientOrder :
                    getIngredientGroup(html_content,
                                       html_content.ingredientOrder[j])
                        = sensoryHeader[k].group}
                    = (SpanSum(sensoryHeader, k - 1) + 1)
                          ..SpanSum(sensoryHeader, k)

\* a page of two columns, the first Ungrouped and the second Harsh in the
\* matrix: the Harsh header spans column 1 and the Ungrouped header column 2
C25_Witness ==
    /\ pageLoaded
    /\ df.columns = <<"ingX", "ingA">>
    /\ html_content.ingredientOrder = <<"ingA", "ingX">>
    /\ sensoryHeader = <<[group |-> "Harsh", colSpan |-> 1],
                          [group |-> "Ungrouped", colSpan |-> 1]>>

\* the traces of the Plotly figure that are shown
VisibleTraces ==
    {k \in DOMAIN interactive_fig.traces : interactive_fig.traces[k].visible}

\* C26: the Plotly figure has one trace for all groups and one per recipe
\* group; when it is built, and after every choice in the dropdown, exactly
\* one trace is visible: the all-groups trace at first and after the first
\* button, the i-th group's trace after the i-th group button.
C26_OneTraceVisible ==
    [][/\ PlotlyBuilt' =>
             /\ Len(interactive_fig.traces') = Len(TobaccoGroupNames) + 1
             /\ Cardinality(VisibleTraces') = 1
       /\ (StepOf("create_interactive_heatmap") /\ PlotlyBuilt')
             => VisibleTraces' = {1}
       /\ \A b \in 1..(Len(TobaccoGroupNames) + 1) :
             Dropdown_Select(b) => VisibleTraces' = {b}]_vars

\* the second group's button was chosen last: only the third trace, the one
\* of G2's recipes, is shown
C26_Witness ==
    /\ PlotlyBuilt
    /\ interactive_fig.active = 2
    /\ VisibleTraces = {3}
    /\ interactive_fig.traces[3].y = tobacco_groups["G2"]

====
